---- MODULE Spec2Model ----
(***************************************************************************)
(* A model of kml_builder.py: the converter that reads a catalog of        *)
(* outings, resolves each outing against its track files and writes one    *)
(* KML document.                                                           *)
(*                                                                         *)
(* Text is modelled as what the code computes on it.  A Python string      *)
(* that the code inspects character by character (file names, dates,       *)
(* titles) is a sequence of one-character strings.  A geographic           *)
(* coordinate is an integer number of 1e-5 degrees, so that the "%.5f"     *)
(* rendering of template_coordinate is exact.                              *)
(***************************************************************************)
EXTENDS Integers, Sequences, FiniteSets, TLC

VARIABLES
    outings,                  \* the catalog loaded from outings.json (line 50)
    prior_kml,                \* the output file as it was before the run
    out_file,                 \* the output file map.lienhard.io.kml
    out_opened,               \* whether line 269 has opened it for writing
    kml_placemarks,           \* results of generate_placemark so far (line 263)
    encountered_titles,       \* line 151
    encountered_dates,        \* line 152
    encountered_strava_urls,  \* line 153
    strava_log,               \* the order of the add calls of line 216
    stdout,                   \* what print has written
    raised,                   \* the exception in flight, or NoExc
    pc,                       \* position of the module-level code
    seg,                      \* simplifier: the segment's points
    epsilon,                  \* simplifier: the tolerance
    simplified,               \* simplifier: the output for seg
    resimplified,             \* simplifier: the output for simplified
    rpc,                      \* simplifier: position
    style,                    \* colour: a style tuple (r, g, b, opacity)
    color,                    \* colour: kml_hex_color of it
    cpc                       \* colour: position

pipeVars == <<outings, prior_kml, out_file, out_opened, kml_placemarks,
              encountered_titles, encountered_dates, encountered_strava_urls,
              strava_log, stdout, raised, pc>>
rdpVars == <<seg, epsilon, simplified, resimplified, rpc>>
colorVars == <<style, color, cpc>>
vars == <<pipeVars, rdpVars, colorVars>>

(***************************************************************************)
(* Bounds of the model.                                                    *)
(***************************************************************************)
MaxOutings == 2     \* outings in a catalog
MaxCoord == 1       \* simplifier inputs lie on the grid 0..MaxCoord squared
MaxPoints == 4      \* points in a simplifier input
MaxEps == 1         \* tolerances 0..MaxEps

(***************************************************************************)
(* Generic helpers.                                                        *)
(***************************************************************************)
Range(s) == {s[i] : i \in 1..Len(s)}

Last(s) == s[Len(s)]

Front(s) == SubSeq(s, 1, Len(s) - 1)

RECURSIVE Flatten(_)
Flatten(ss) == IF ss = <<>> THEN <<>> ELSE Head(ss) \o Flatten(Tail(ss))

(***************************************************************************)
(* Style registry and colour encoding (lines 37-47, 125-127).              *)
(* An opacity is held in tenths: alpha = 0.9 is 9.  For every opacity      *)
(* n/10 with n in 0..10 the double product (n/10)*255 truncates to         *)
(* (n*255) \div 10, which is what int() returns.                           *)
(***************************************************************************)
alpha == 9

styles == <<
    << <<"H","i","k","e">>,                         <<255,   0,   0, alpha>> >>,
    << <<"V","i","a","F","e","r","r","a","t","a">>, <<255,   0,   0, alpha>> >>,
    << <<"H","o","c","h","t","o","u","r">>,         <<139,   0, 139, alpha>> >>,
    << <<"C","l","i","m","b">>,                     <<139,   0, 139, alpha>> >>,
    << <<"S","k","i","t","o","u","r">>,             <<  0,   0, 255, alpha>> >>,
    << <<"R","u","n">>,                             << 55, 180,   0, alpha>> >>,
    << <<"B","i","k","e">>,                         <<255, 136,   0, alpha>> >>,
    << <<"X","C","-","S","k","i">>,                 <<  0, 227, 216, alpha>> >> >>

StyleKeys == {styles[i][1] : i \in 1..Len(styles)}

HexDigits == <<"0","1","2","3","4","5","6","7","8","9","A","B","C","D","E","F">>

\* format(v, "X"): upper-case hexadecimal, no padding
RECURSIVE HexUpper(_)
HexUpper(v) ==
    IF v < 16 THEN <<HexDigits[v + 1]>>
    ELSE HexUpper(v \div 16) \o <<HexDigits[(v % 16) + 1]>>

\* format(v, "02X"): zero-padded to at least two digits
Format02X(v) ==
    LET h == HexUpper(v) IN IF Len(h) < 2 THEN <<"0">> \o h ELSE h

\* int(c[3]*255): the product truncated towards zero
IntAlpha(opacity) == (opacity * 255) \div 10

\* a plausible slip: the channels written in the order rrggbbaa
kml_hex_color_rgba(c) ==
    Format02X(c[1]) \o Format02X(c[2]) \o Format02X(c[3]) \o Format02X(IntAlpha(c[4]))

kml_hex_color(c) ==
    Format02X(IntAlpha(c[4])) \o Format02X(c[3]) \o Format02X(c[2]) \o Format02X(c[1])

(***************************************************************************)
(* Curve simplification (lines 142-148).  rdp.rdp is the external rdp      *)
(* package; RdpMask follows the specification's section 4.2, with the      *)
(* package's conventions where the specification is silent (the first of   *)
(* several farthest points is the split point; a chord of length zero      *)
(* measures the distance to its end point).  Distances are compared as     *)
(* exact squares.                                                          *)
(***************************************************************************)
\* squared distance of p from the line through s and e, as num/den
DistSq(p, s, e) ==
    IF s = e
    THEN [num |-> (p[1] - s[1]) * (p[1] - s[1]) + (p[2] - s[2]) * (p[2] - s[2]),
          den |-> 1]
    ELSE LET cross == (e[1] - s[1]) * (s[2] - p[2]) - (e[2] - s[2]) * (s[1] - p[1])
         IN [num |-> cross * cross,
             den |-> (e[1] - s[1]) * (e[1] - s[1]) + (e[2] - s[2]) * (e[2] - s[2])]

\* the scan for the farthest interior point of M[first..last], from index i on:
\* a later point replaces the current one only when strictly farther
RECURSIVE Farthest(_, _, _, _, _, _)
Farthest(M, first, last, i, index, dmax) ==
    IF i >= last THEN [index |-> index, dmax |-> dmax]
    ELSE LET d == DistSq(M[i], M[first], M[last]).num
         IN IF d > dmax THEN Farthest(M, first, last, i + 1, i, d)
            ELSE Farthest(M, first, last, i + 1, index, dmax)

\* the indices of M[first..last] that are kept
RECURSIVE RdpKeep(_, _, _, _)
RdpKeep(M, first, last, eps) ==
    IF last <= first THEN {first, last} \cap (1..Len(M))
    ELSE LET f == Farthest(M, first, last, first + 1, first, 0)
             den == DistSq(M[first], M[first], M[last]).den
         IN IF f.dmax > eps * eps * den
            THEN RdpKeep(M, first, f.index, eps) \cup RdpKeep(M, f.index, last, eps)
            ELSE {first, last}

\* rdp.rdp(M, algo="iter", return_mask=True, epsilon=eps)
RdpMask(M, eps) ==
    LET keep == RdpKeep(M, 1, Len(M), eps) IN [i \in 1..Len(M) |-> i \in keep]

\* parr[mask]: the elements whose mask entry is set, in order
RECURSIVE SelectByMask(_, _)
SelectByMask(parr, mask) ==
    IF parr = <<>> THEN <<>>
    ELSE (IF Head(mask) THEN <<Head(parr)>> ELSE <<>>)
         \o SelectByMask(Tail(parr), Tail(mask))

\* a plausible slip: the mask taken over all points but the last
optimize_segment_rdp_short(points, eps) ==
    LET arr  == [i \in 1..Len(points) |-> <<points[i].latitude, points[i].longitude>>]
        mask == RdpMask(arr, eps)
    IN SelectByMask(Front(points), Front(mask))

\* a plausible slip: the mask inverted
optimize_segment_rdp_inverted(points, eps) ==
    LET arr  == [i \in 1..Len(points) |-> <<points[i].latitude, points[i].longitude>>]
        mask == RdpMask(arr, eps)
    IN SelectByMask(points, [i \in 1..Len(points) |-> ~mask[i]])

\* optimize_segment_rdp(seg).points; eps is the module's rdp_epsilon
optimize_segment_rdp(points, eps) ==
    LET arr  == [i \in 1..Len(points) |-> <<points[i].latitude, points[i].longitude>>]
        mask == RdpMask(arr, eps)
    IN SelectByMask(points, mask)

(***************************************************************************)
(* Regular expressions of lines 133-137, on sequences of characters.       *)
(***************************************************************************)
Digits == {"0","1","2","3","4","5","6","7","8","9"}

\* the characters \S excludes
Whitespace == {" ", "\t", "\n"}

DigitValue(c) == CHOOSE v \in 0..9 : HexDigits[v + 1] = c

\* int() of a sequence of decimal digits
RECURSIVE ToInt(_)
ToInt(ds) == IF ds = <<>> THEN 0 ELSE 10 * ToInt(Front(ds)) + DigitValue(Last(ds))

\* str() of a natural number
RECURSIVE ToStr(_)
ToStr(n) ==
    IF n < 10 THEN <<HexDigits[n + 1]>>
    ELSE ToStr(n \div 10) \o <<HexDigits[(n % 10) + 1]>>

\* s[from..to] = w, false when the range leaves s
HasAt(s, from, w) ==
    /\ from >= 1
    /\ from + Len(w) - 1 <= Len(s)
    /\ SubSeq(s, from, from + Len(w) - 1) = w

\* "$" without re.MULTILINE: the end of the string, or just before a final newline
AtEnd(s, q) == q = Len(s) + 1 \/ (q = Len(s) /\ s[q] = "\n")

\* date_fmt "([0-9]{4}-[0-9]{2}-[0-9]{2})" matched at s[from..from+9]
DateFmtAt(s, from) ==
    /\ from + 9 <= Len(s)
    /\ \A k \in {0, 1, 2, 3, 5, 6, 8, 9} : s[from + k] \in Digits
    /\ s[from + 4] = "-"
    /\ s[from + 7] = "-"

\* re.search(f"^{date_fmt}$", s)
DateFmtMatch(s) == DateFmtAt(s, 1) /\ AtEnd(s, 11)

\* type_fmt: the alternatives are the style keys; no key is a prefix of another
TypeAt(s, from) == {k \in StyleKeys : HasAt(s, from, k)}

\* ".gpx$" at s[q..]: "." is any character but a newline
GpxTailAt(s, q) ==
    /\ q <= Len(s)
    /\ s[q] # "\n"
    /\ HasAt(s, q + 1, <<"g", "p", "x">>)
    /\ AtEnd(s, q + 4)

\* multi_track_fmt "(?:__(\d))?" followed by ".gpx$" at s[q..]: the group is
\* tried first and given up only when the rest does not match.  The result
\* is <<TRUE, group 4>>, group 4 being <<>> when the group did not take part.
MultiTailAt(s, q) ==
    IF /\ HasAt(s, q, <<"_", "_">>)
       /\ q + 2 <= Len(s)
       /\ s[q + 2] \in Digits
       /\ GpxTailAt(s, q + 3)
    THEN <<TRUE, <<s[q + 2]>> >>
    ELSE IF GpxTailAt(s, q) THEN <<TRUE, <<>> >>
    ELSE <<FALSE, <<>> >>

\* title_fmt "(\S+?)" from s[t0]: the shortest run of non-whitespace after
\* which the rest of the pattern matches; k is the length tried
RECURSIVE TitleAt(_, _, _)
TitleAt(s, t0, k) ==
    IF t0 + k - 1 > Len(s) \/ s[t0 + k - 1] \in Whitespace
    THEN [ok |-> FALSE, title |-> <<>>, multi |-> <<>>]
    ELSE IF MultiTailAt(s, t0 + k)[1]
    THEN [ok |-> TRUE, title |-> SubSeq(s, t0, t0 + k - 1),
          multi |-> MultiTailAt(s, t0 + k)[2]]
    ELSE TitleAt(s, t0, k + 1)

NoMatch == [ok |-> FALSE, date |-> <<>>, type |-> <<>>, title |-> <<>>, multi |-> <<>>]

\* the match once the title is found: groups 1 to 4
MatchGroups(s, type, t) ==
    IF ~t.ok THEN NoMatch
    ELSE [ok |-> TRUE, date |-> SubSeq(s, 1, 10), type |-> type,
          title |-> t.title, multi |-> t.multi]

\* the pattern from the type on; types holds the alternative that matches
MatchFromType(s, types) ==
    IF types = {} THEN NoMatch
    ELSE IF ~HasAt(s, 13 + Len(CHOOSE k \in types : TRUE), <<"_", "_">>) THEN NoMatch
    ELSE MatchGroups(s, CHOOSE k \in types : TRUE,
                     TitleAt(s, 15 + Len(CHOOSE k \in types : TRUE), 1))

\* re.search(track_file_format, s): groups 1 to 4
track_file_format(s) ==
    IF ~(DateFmtAt(s, 1) /\ HasAt(s, 11, <<"_", "_">>)) THEN NoMatch
    ELSE MatchFromType(s, TypeAt(s, 13))

\* title.replace("_", " ")
ReplaceUnderscores(t) == [i \in 1..Len(t) |-> IF t[i] = "_" THEN " " ELSE t[i]]

(***************************************************************************)
(* datetime.date(year, month, day) of line 200.                            *)
(***************************************************************************)
IsLeap(y) == (y % 4 = 0 /\ y % 100 # 0) \/ y % 400 = 0

DaysInMonth(y, m) ==
    IF m = 2 THEN (IF IsLeap(y) THEN 29 ELSE 28)
    ELSE IF m \in {4, 6, 9, 11} THEN 30 ELSE 31

\* whether date() accepts the three numbers; it raises ValueError otherwise
DateAccepts(y, m, d) == y >= 1 /\ m \in 1..12 /\ d >= 1 /\ d <= DaysInMonth(y, m)

(***************************************************************************)
(* Text of the document.  A text is the sequence of its lines (what        *)
(* split("\n") returns), a line the sequence of its tokens.                *)
(***************************************************************************)
Tab == [k |-> "tab", s |-> "", c |-> <<>>]

Tag(s) == [k |-> "tag", s |-> s, c |-> <<>>]

\* the space-separated coordinates of a <coordinates> element
Coords(cs) == [k |-> "coords", s |-> "", c |-> cs]

\* the empty string: one empty line
EmptyText == << <<>> >>

\* a + b on strings: the last line of a continues with the first line of b
TextCat(a, b) == Front(a) \o <<Last(a) \o Head(b)>> \o Tail(b)

\* "\n".join(texts)
JoinLines(texts) == IF texts = <<>> THEN EmptyText ELSE Flatten(texts)

\* indent (lines 52-55)
indent(template_str, n) ==
    [i \in 1..Len(template_str) |-> [j \in 1..n |-> Tab] \o template_str[i]]

\* template_coordinate (line 98): longitude first, each with five decimals
template_coordinate(long, lat) == <<long, lat>>

\* template_point (lines 99-104)
template_point(coordinate) ==
    << <<Tag("<Point>")>>,
       <<Tab, Tag("<altitudeMode>clampToGround</altitudeMode>")>>,
       <<Tab, Tag("<coordinates>"), Coords(<<coordinate>>), Tag("</coordinates>")>>,
       <<Tag("</Point>")>> >>

\* template_linestring (lines 105-111)
template_linestring(coordinates) ==
    << <<Tag("<LineString>")>>,
       <<Tab, Tag("<altitudeMode>clampToGround</altitudeMode>")>>,
       <<Tab, Tag("<tessellate>1</tessellate>")>>,
       <<Tab, Tag("<coordinates>"), Coords(coordinates), Tag("</coordinates>")>>,
       <<Tag("</LineString>")>> >>

\* template_multigeometry (lines 93-97)
template_multigeometry(geometries) ==
    << <<Tag("<MultiGeometry>")>> >> \o geometries \o << <<Tag("</MultiGeometry>")>> >>

\* template_placemark (lines 84-90): the three substitutions
template_placemark(style_name, description, geometry) ==
    [style_name |-> style_name, description |-> description, geometry |-> geometry]

(***************************************************************************)
(* Exceptions.  subject says what the message embeds; url is the           *)
(* identifier of an "Already encountered Strava URL" message, else 0;      *)
(* during is the line of the exception being handled when this one was     *)
(* raised, else 0.                                                         *)
(***************************************************************************)
Exc(type, line, subject) ==
    [type |-> type, line |-> line, subject |-> subject, url |-> 0, during |-> 0]

NoExc == Exc("", 0, "")

rdp_epsilon == 20        \* 0.0002 degrees, in units of 1e-5 degree

(***************************************************************************)
(* generate_placemark (lines 155-260), section by section.  g holds the    *)
(* module's globals that the function changes: titles, dates, urls (the    *)
(* three encountered_ sets), log and out (stdout).                         *)
(***************************************************************************)
Unbound == [bound |-> FALSE, value |-> <<>>]

Bound(v) == [bound |-> TRUE, value |-> v]

\* the f-string of line 174 for the track at 0-based index i
MultiTrackName(m, i) ==
    m.date \o <<"_", "_">> \o m.type \o <<"_", "_">> \o m.title
           \o <<"_", "_">> \o ToStr(i + 1) \o <<".", "g", "p", "x">>

\* lines 162-176, m being the match of line 161
NamesFromMatch(tracks, m) ==
    IF ~m.ok
    THEN [exc |-> Exc("AssertionError", 162, "track")]
    ELSE IF Len(tracks) > 1 /\ m.multi = <<>>
    THEN [exc |-> Exc("AssertionError", 170, "track")]
    ELSE IF m.multi # <<>> /\ m.multi # <<"1">>
    THEN [exc |-> Exc("AssertionError", 172, "tracks")]
    ELSE IF m.multi # <<>> /\ \E i \in 1..Len(tracks) : tracks[i] # MultiTrackName(m, i - 1)
    THEN [exc |-> Exc("AssertionError", 174, "track")]
    ELSE [exc |-> NoExc, date_str |-> Bound(m.date), activity_type |-> Bound(m.type),
          title |-> Bound(ReplaceUnderscores(m.title))]

\* lines 159-176: date, type and title from the first track's name
NamesFromTracks(tracks) == NamesFromMatch(tracks, track_file_format(tracks[1]))

NoNames == [exc |-> NoExc, date_str |-> Unbound, activity_type |-> Unbound, title |-> Unbound]

\* a plausible slip: the file name's values win over the explicit fields
OverwriteTracksFirst(outing, n) ==
    [date_str      |-> IF "date" \in DOMAIN outing /\ ~n.date_str.bound
                       THEN Bound(outing.date) ELSE n.date_str,
     activity_type |-> IF "type" \in DOMAIN outing /\ ~n.activity_type.bound
                       THEN Bound(outing.type) ELSE n.activity_type,
     title         |-> IF "title" \in DOMAIN outing /\ ~n.title.bound
                       THEN Bound(outing.title) ELSE n.title]

\* lines 179-185: explicit fields overwrite
Overwrite(outing, n) ==
    [date_str      |-> IF "date" \in DOMAIN outing THEN Bound(outing.date) ELSE n.date_str,
     activity_type |-> IF "type" \in DOMAIN outing THEN Bound(outing.type) ELSE n.activity_type,
     title         |-> IF "title" \in DOMAIN outing THEN Bound(outing.title) ELSE n.title]

Note(kind, v) == [k |-> kind, v |-> v]

\* a plausible slip: a repeated title or date treated like a repeated Strava URL
EncounterStrict(r, g) ==
    IF ~r.title.bound THEN [exc |-> Exc("UnboundLocalError", 187, ""), g |-> g]
    ELSE IF r.title.value \in g.titles
    THEN [exc |-> Exc("AssertionError", 187, "title"), g |-> g]
    ELSE IF ~r.date_str.bound THEN [exc |-> Exc("UnboundLocalError", 189, ""), g |-> g]
    ELSE IF r.date_str.value \in g.dates
    THEN [exc |-> Exc("AssertionError", 189, "date"), g |-> g]
    ELSE [exc |-> NoExc,
          g |-> [g EXCEPT !.titles = @ \cup {r.title.value},
                          !.dates = @ \cup {r.date_str.value}]]

\* lines 187-192: notices for repeated titles and dates, then both recorded
Encounter(r, g) ==
    IF ~r.title.bound THEN [exc |-> Exc("UnboundLocalError", 187, ""), g |-> g]
    ELSE LET g1 == IF r.title.value \in g.titles
                   THEN [g EXCEPT !.out = Append(@, Note("title", r.title.value))]
                   ELSE g
         IN IF ~r.date_str.bound
            THEN [exc |-> Exc("UnboundLocalError", 189, ""), g |-> g1]
            ELSE LET g2 == IF r.date_str.value \in g1.dates
                           THEN [g1 EXCEPT !.out = Append(@, Note("date", r.date_str.value))]
                           ELSE g1
                 IN [exc |-> NoExc,
                     g |-> [g2 EXCEPT !.titles = @ \cup {r.title.value},
                                      !.dates = @ \cup {r.date_str.value}]]

\* lines 194-195: the two validation asserts; "and" stops at the first false operand
Validate(r, num_points, num_tracks) ==
    IF Len(r.title.value) = 0 THEN Exc("AssertionError", 194, "outing")
    ELSE IF ~r.activity_type.bound THEN Exc("UnboundLocalError", 194, "")
    ELSE IF r.activity_type.value \notin StyleKeys THEN Exc("AssertionError", 194, "outing")
    ELSE IF ~DateFmtMatch(r.date_str.value) THEN Exc("AssertionError", 194, "outing")
    ELSE IF ~(num_points + num_tracks > 0) THEN Exc("AssertionError", 195, "outing")
    ELSE NoExc

\* lines 200-201: the three numbers of the date; strftime renders the month
\* by name and the day without a leading zero
DateNumbers(date_str) ==
    [year  |-> ToInt(SubSeq(date_str, 1, 4)),
     month |-> ToInt(SubSeq(date_str, 6, 7)),
     day   |-> ToInt(SubSeq(date_str, 9, 10))]

\* a plausible slip: the whole list checked against the set before any is added
StravaUrlsCheckedUpFront(strava_urls, g) ==
    IF ~(Len(strava_urls) > 0) THEN [exc |-> Exc("AssertionError", 213, "outing"), g |-> g]
    ELSE IF \E i \in 1..Len(strava_urls) : strava_urls[i] \in g.urls
    THEN LET i == CHOOSE j \in 1..Len(strava_urls) :
                      /\ strava_urls[j] \in g.urls
                      /\ \A h \in 1..(j - 1) : strava_urls[h] \notin g.urls
         IN [exc |-> [Exc("AssertionError", 215, "url") EXCEPT !.url = strava_urls[i]],
             g |-> g]
    ELSE [exc |-> NoExc,
          g |-> [g EXCEPT !.urls = @ \cup Range(strava_urls), !.log = @ \o strava_urls]]

\* lines 214-216: each identifier is checked, then added, in list order
RECURSIVE StravaLoop(_, _, _)
StravaLoop(strava_urls, i, g) ==
    IF i > Len(strava_urls) THEN [exc |-> NoExc, g |-> g]
    ELSE IF strava_urls[i] \in g.urls
    THEN [exc |-> [Exc("AssertionError", 215, "url") EXCEPT !.url = strava_urls[i]],
          g |-> g]
    ELSE StravaLoop(strava_urls, i + 1,
                    [g EXCEPT !.urls = @ \cup {strava_urls[i]},
                              !.log = Append(@, strava_urls[i])])

\* lines 211-216
StravaUrls(strava_urls, g) ==
    IF ~(Len(strava_urls) > 0) THEN [exc |-> Exc("AssertionError", 213, "outing"), g |-> g]
    ELSE StravaLoop(strava_urls, 1, g)

\* lines 218-221: <<n, url>> is the link "tracks n" to url, <<0, url>> the link "tracks"
StravaLinks(strava_urls) ==
    IF Len(strava_urls) > 1
    THEN [i \in 1..Len(strava_urls) |-> <<i, strava_urls[i]>>]
    ELSE << <<0, strava_urls[1]>> >>

\* lines 202-226: the description, part by part
Description(outing, r) ==
    << [k |-> "head", title |-> r.title.value, type |-> r.activity_type.value,
        date |-> DateNumbers(r.date_str.value)] >>
    \o (IF "photoUrl" \in DOMAIN outing THEN << [k |-> "photos", url |-> outing.photoUrl] >>
        ELSE <<>>)
    \o (IF "stravaUrl" \in DOMAIN outing
        THEN << [k |-> "strava", links |-> StravaLinks(outing.stravaUrl)] >> ELSE <<>>)
    \o (IF "note" \in DOMAIN outing THEN << [k |-> "note", text |-> outing.note] >> ELSE <<>>)

\* generate_point (lines 230-235)
generate_point(point) ==
    IF ~(/\ "lat" \in DOMAIN point
         /\ point.lat.t = "float"
         /\ "long" \in DOMAIN point
         /\ point.long.t = "float"
         /\ Cardinality(DOMAIN point) = 2)
    THEN [exc |-> Exc("AssertionError", 231, "point"), text |-> EmptyText]
    ELSE [exc |-> NoExc,
          text |-> template_point(template_coordinate(point.long.v, point.lat.v))]

\* lines 250-252: the simplified points, rendered
LineString(all_points) ==
    template_linestring([i \in 1..Len(all_points) |->
                            template_coordinate(all_points[i].longitude,
                                                all_points[i].latitude)])

\* lines 243-252, gpx being what gpxpy.parse returned
LineStringOf(gpx) ==
    IF ~gpx.wellformed
    THEN [exc |-> Exc("GPXXMLSyntaxException", 242, ""), text |-> EmptyText]
    ELSE IF ~(gpx.tracks = 1 /\ gpx.waypoints = 0 /\ gpx.routes = 0)
    THEN [exc |-> Exc("AssertionError", 243, "gpx_file"), text |-> EmptyText]
    ELSE IF ~(Len(gpx.segments) = 1)
    THEN [exc |-> Exc("AssertionError", 248, ""), text |-> EmptyText]
    ELSE [exc |-> NoExc,
          text |-> LineString(optimize_segment_rdp(gpx.segments[1], rdp_epsilon))]

\* generate_linestring (lines 239-252); dir is the content of data/
generate_linestring(track, dir) ==
    IF track \notin DOMAIN dir
    THEN [exc |-> Exc("FileNotFoundError", 241, ""), text |-> EmptyText]
    ELSE LineStringOf(dir[track])

\* the exception of the first element of a map() that raises
FirstExc(results) ==
    IF \A i \in 1..Len(results) : results[i].exc.type = "" THEN NoExc
    ELSE LET i == CHOOSE j \in 1..Len(results) :
                      /\ results[j].exc.type # ""
                      /\ \A h \in 1..(j - 1) : results[h].exc.type = ""
         IN results[i].exc

Texts(results) == [i \in 1..Len(results) |-> results[i].text]

\* a plausible slip: the container only when there are several tracks
GeometryWrapTracksOnly(points, lines) ==
    LET geom1 == IF Len(points) > 0 THEN TextCat(EmptyText, JoinLines(points))
                 ELSE EmptyText
        geom2 == IF Len(lines) > 0 THEN TextCat(geom1, JoinLines(lines)) ELSE geom1
    IN IF Len(lines) > 1
       THEN indent(template_multigeometry(indent(geom2, 1)), 1)
       ELSE indent(geom2, 1)

\* lines 228, 236, 253-258: points and lines are the rendered elements
Geometry(points, lines) ==
    LET geom1 == IF Len(points) > 0 THEN TextCat(EmptyText, JoinLines(points))
                 ELSE EmptyText
        geom2 == IF Len(lines) > 0 THEN TextCat(geom1, JoinLines(lines)) ELSE geom1
    IN IF Len(points) + Len(lines) > 1
       THEN indent(template_multigeometry(indent(geom2, 1)), 1)
       ELSE indent(geom2, 1)

NoPlacemark == template_placemark(<<>>, <<>>, EmptyText)

Raise(e, g) == [exc |-> e, g |-> g, placemark |-> NoPlacemark]

\* lines 238-260: the tracks rendered as ls, the placemark is returned
AfterTracks(outing, r, g, ps, ls) ==
    IF FirstExc(ls).type # "" THEN Raise(FirstExc(ls), g)
    ELSE [exc |-> NoExc, g |-> g,
          placemark |-> template_placemark(r.activity_type.value, Description(outing, r),
                                           Geometry(Texts(ps), Texts(ls)))]

\* lines 229-253: the points rendered as ps, the tracks are next
AfterPoints(outing, dir, r, g, ps) ==
    IF FirstExc(ps).type # "" THEN Raise(FirstExc(ps), g)
    ELSE AfterTracks(outing, r, g, ps,
                     IF "tracks" \in DOMAIN outing /\ Len(outing.tracks) > 0
                     THEN [i \in 1..Len(outing.tracks) |->
                              generate_linestring(outing.tracks[i], dir)]
                     ELSE <<>>)

\* lines 217-236: the Strava section has returned s, the points are next
AfterStrava(outing, dir, r, s) ==
    IF s.exc.type # "" THEN Raise(s.exc, s.g)
    ELSE AfterPoints(outing, dir, r, s.g,
                     IF "points" \in DOMAIN outing /\ Len(outing.points) > 0
                     THEN [i \in 1..Len(outing.points) |-> generate_point(outing.points[i])]
                     ELSE <<>>)

\* lines 200-216: the asserts of lines 194-195 have passed or raised v
AfterValidate(outing, dir, r, g, v, d) ==
    IF v.type # "" THEN Raise(v, g)
    ELSE IF ~DateAccepts(d.year, d.month, d.day) THEN Raise(Exc("ValueError", 200, ""), g)
    ELSE AfterStrava(outing, dir, r,
                     IF "stravaUrl" \in DOMAIN outing THEN StravaUrls(outing.stravaUrl, g)
                     ELSE [exc |-> NoExc, g |-> g])

\* lines 194-195: the encountered sets are updated as e, validation is next
AfterEncounter(outing, dir, r, e, num_points, num_tracks) ==
    IF e.exc.type # "" THEN Raise(e.exc, e.g)
    ELSE AfterValidate(outing, dir, r, e.g, Validate(r, num_points, num_tracks),
                       DateNumbers(r.date_str.value))

\* lines 179-192: the names from the tracks are n
AfterNames(outing, g, dir, n, num_points, num_tracks) ==
    IF n.exc.type # "" THEN Raise(n.exc, g)
    ELSE AfterEncounter(outing, dir, Overwrite(outing, n),
                        Encounter(Overwrite(outing, n), g), num_points, num_tracks)

\* generate_placemark(outing): the exception it raises or the placemark it
\* returns, and the globals as it leaves them
generate_placemark(outing, g, dir) ==
    AfterNames(outing, g, dir,
               IF "tracks" \in DOMAIN outing /\ Len(outing.tracks) > 0
               THEN NamesFromTracks(outing.tracks) ELSE NoNames,
               IF "points" \in DOMAIN outing THEN Len(outing.points) ELSE 0,
               IF "tracks" \in DOMAIN outing THEN Len(outing.tracks) ELSE 0)

(***************************************************************************)
(* Inputs: file names and field values of the catalogs that are checked.   *)
(***************************************************************************)
File_a == <<"2","0","2","3","-","0","6","-","1","5","_","_","R","u","n","_","_","a",".","g","p","x">>

File_a_2 == <<"2","0","2","3","-","0","6","-","1","5","_","_","R","u","n","_","_","a","_","_","2",".","g","p","x">>

File_a_nodot == <<"2","0","2","3","-","0","6","-","1","5","_","_","R","u","n","_","_","a","_","g","p","x">>

File_b_1 == <<"2","0","2","3","-","0","6","-","1","6","_","_","H","i","k","e","_","_","b","_","c","_","_","1",".","g","p","x">>

File_b_2 == <<"2","0","2","3","-","0","6","-","1","6","_","_","H","i","k","e","_","_","b","_","c","_","_","2",".","g","p","x">>

File_b_3 == <<"2","0","2","3","-","0","6","-","1","6","_","_","H","i","k","e","_","_","b","_","c","_","_","3",".","g","p","x">>

File_walk == <<"2","0","2","3","-","0","6","-","1","5","_","_","W","a","l","k","_","_","a",".","g","p","x">>

File_gone == <<"2","0","2","3","-","0","6","-","1","5","_","_","R","u","n","_","_","d",".","g","p","x">>

File_two == <<"2","0","2","3","-","0","6","-","1","5","_","_","R","u","n","_","_","e",".","g","p","x">>

File_junk == <<"2","0","2","3","-","0","6","-","1","5","_","_","R","u","n","_","_","f",".","g","p","x">>

File_segs == <<"2","0","2","3","-","0","6","-","1","5","_","_","R","u","n","_","_","g",".","g","p","x">>

File_feb30 == <<"2","0","2","4","-","0","2","-","3","0","_","_","R","u","n","_","_","a",".","g","p","x">>

Date_1 == <<"2","0","2","3","-","0","6","-","1","5">>

Date_2 == <<"2","0","2","3","-","0","7","-","0","1">>

Date_short == <<"2","0","2","3","-","6","-","1","5">>

Type_Run == <<"R","u","n">>

Type_Bike == <<"B","i","k","e">>

Type_Walk == <<"W","a","l","k">>

Title_a == <<"a">>

Title_T == <<"T">>

Title_empty == <<>>

\* a point of a GPX track segment
Pt(lat, long) == [latitude |-> lat, longitude |-> long]

\* a parsed GPX file: segments are those of its first track
Gpx(tracks, segments) ==
    [wellformed |-> TRUE, tracks |-> tracks, waypoints |-> 0, routes |-> 0,
     segments |-> segments]

Seg_bend == <<Pt(0, 0), Pt(30, 50), Pt(0, 100)>>

Seg_flat == <<Pt(0, 200), Pt(10, 250), Pt(10, 260), Pt(0, 300)>>

Seg_loop == <<Pt(5, 5), Pt(5, 45), Pt(45, 45), Pt(5, 5)>>

\* the files under data/ (File_gone is not among them)
gpx_data_dir ==
    (File_a :> Gpx(1, <<Seg_bend>>)) @@
    (File_a_2 :> Gpx(1, <<Seg_bend>>)) @@
    (File_a_nodot :> Gpx(1, <<Seg_flat>>)) @@
    (File_b_1 :> Gpx(1, <<Seg_flat>>)) @@
    (File_b_2 :> Gpx(1, <<Seg_loop>>)) @@
    (File_b_3 :> Gpx(1, <<Seg_bend>>)) @@
    (File_walk :> Gpx(1, <<Seg_bend>>)) @@
    (File_two :> Gpx(2, <<Seg_bend>>)) @@
    (File_junk :> [Gpx(0, <<>>) EXCEPT !.wellformed = FALSE]) @@
    (File_segs :> Gpx(1, <<Seg_bend, Seg_flat>>)) @@
    (File_feb30 :> Gpx(1, <<Seg_bend>>))

\* a JSON number: a float, or an int when written without a fraction
JsonFloat(v) == [t |-> "float", v |-> v]

JsonInt(v) == [t |-> "int", v |-> v]

Point_1 == [lat |-> JsonFloat(4650000), long |-> JsonFloat(750000)]

Point_2 == [lat |-> JsonFloat(4712345), long |-> JsonFloat(812345)]

Point_int == [lat |-> JsonInt(4700000), long |-> JsonFloat(800000)]

Point_nolong == [lat |-> JsonFloat(4650000)]

\* the explicit fields of a complete outing without geometry
Fields(title, date, type) == [title |-> title, date |-> date, type |-> type]

\* the outings the catalogs are drawn from
Outings == {
    \* tracks only
    [tracks |-> <<File_a>>],
    [tracks |-> <<File_b_1>>],
    [tracks |-> <<File_b_1, File_b_2>>],
    [tracks |-> <<File_a>>, stravaUrl |-> <<1>>],
    [tracks |-> <<File_a_2>>],
    [tracks |-> <<File_a_nodot>>],
    [tracks |-> <<File_walk>>],
    [tracks |-> <<File_gone>>],
    [tracks |-> <<File_two>>],
    [tracks |-> <<File_junk>>],
    [tracks |-> <<File_segs>>],
    [tracks |-> <<File_feb30>>],
    [tracks |-> <<File_a, File_a>>],
    [tracks |-> <<File_b_1, File_b_3>>],
    \* tracks with explicit fields
    [tracks |-> <<File_a>>, title |-> Title_T],
    [tracks |-> <<File_a>>, type |-> Type_Bike, date |-> Date_2],
    [tracks |-> <<File_a>>, type |-> Type_Walk],
    [tracks |-> <<File_feb30>>, date |-> Date_1],
    \* points, with and without tracks
    [points |-> <<Point_1>>] @@ Fields(Title_a, Date_1, Type_Run),
    [points |-> <<Point_1, Point_2>>, photoUrl |-> "gallery", note |-> "note",
     stravaUrl |-> <<1, 2>>] @@ Fields(Title_T, Date_2, Type_Bike),
    [points |-> <<Point_2>>, tracks |-> <<File_a>>],
    [points |-> <<Point_1, Point_2>>, tracks |-> <<File_b_1, File_b_2>>],
    [points |-> <<Point_int>>] @@ Fields(Title_T, Date_2, Type_Bike),
    [points |-> <<Point_1, Point_nolong>>] @@ Fields(Title_T, Date_2, Type_Bike),
    \* Strava lists
    [points |-> <<Point_1>>, stravaUrl |-> <<2, 2>>] @@ Fields(Title_T, Date_2, Type_Bike),
    [points |-> <<Point_1>>, stravaUrl |-> <<3, 1>>] @@ Fields(Title_T, Date_1, Type_Bike),
    [points |-> <<Point_1>>, stravaUrl |-> <<>>] @@ Fields(Title_T, Date_2, Type_Bike),
    \* invalid or missing fields
    [points |-> <<Point_1>>] @@ Fields(Title_empty, Date_2, Type_Bike),
    [points |-> <<Point_1>>] @@ Fields(Title_T, Date_short, Type_Bike),
    [points |-> <<Point_1>>, date |-> Date_2, type |-> Type_Bike],
    [points |-> <<Point_1>>, title |-> Title_T, type |-> Type_Bike],
    [points |-> <<Point_1>>, title |-> Title_T, date |-> Date_2],
    \* no geometry
    Fields(Title_T, Date_2, Type_Bike),
    [points |-> <<>>, tracks |-> <<>>] @@ Fields(Title_a, Date_1, Type_Run),
    [title |-> Title_T, date |-> Date_2],
    [note |-> "note"] }

\* the catalogs: every sequence of at most MaxOutings of these outings
Catalogs == UNION {[1..n -> Outings] : n \in 0..MaxOutings}

\* a file: absent, or present with a document
NoFile == [exists |-> FALSE, name |-> "", styles |-> <<>>, placemarks |-> <<>>]

StaleFile == [exists |-> TRUE, name |-> "stale", styles |-> <<>>, placemarks |-> <<>>]

(***************************************************************************)
(* Styles of the document (lines 118-131).                                 *)
(***************************************************************************)
line_width == 8

marker_icon_size == 48

\* svg_base64_data_url (lines 120-123): the values filled into the icon; the
\* opacity is written as it is, in tenths here
svg_base64_data_url(c) ==
    [size |-> marker_icon_size, r |-> c[1], g |-> c[2], b |-> c[3], a |-> c[4]]

\* generate_style (lines 129-130) for an item <<name, color>> of styles
generate_style(item) ==
    [style_name |-> item[1], color |-> kml_hex_color(item[2]), width |-> line_width,
     icon_url |-> svg_base64_data_url(item[2])]

kml_styles == [i \in 1..Len(styles) |-> generate_style(styles[i])]

(***************************************************************************)
(* The module-level code of lines 262-273.                                 *)
(***************************************************************************)
Globals ==
    [titles |-> encountered_titles, dates |-> encountered_dates,
     urls |-> encountered_strava_urls, log |-> strava_log, out |-> stdout]

SetGlobals(g) ==
    /\ encountered_titles' = g.titles
    /\ encountered_dates' = g.dates
    /\ encountered_strava_urls' = g.urls
    /\ strava_log' = g.log
    /\ stdout' = g.out

\* template_body (lines 57-66) filled in at line 267
kml_all ==
    [exists |-> TRUE, name |-> "kml_title", styles |-> kml_styles,
     placemarks |-> kml_placemarks]

\* line 263: join keeps the placemark, or the exception leaves the try block
MapResult(res) ==
    /\ SetGlobals(res.g)
    /\ IF res.exc.type = ""
       THEN /\ kml_placemarks' = Append(kml_placemarks, res.placemark)
            /\ UNCHANGED <<raised, pc>>
       ELSE /\ raised' = res.exc
            /\ pc' = "except"
            /\ UNCHANGED kml_placemarks

\* line 263: map() calls generate_placemark for the next outing
MapGeneratePlacemark ==
    /\ pc = "map"
    /\ Len(kml_placemarks) < Len(outings)
    /\ MapResult(generate_placemark(outings[Len(kml_placemarks) + 1], Globals,
                                    gpx_data_dir))
    /\ UNCHANGED <<outings, prior_kml, out_file, out_opened>>

\* a plausible slip: the file opened before the placemarks are complete
WriteKmlEarly ==
    /\ pc = "map"
    /\ out_opened' = TRUE
    /\ out_file' = kml_all
    /\ pc' = "done"
    /\ UNCHANGED <<outings, prior_kml, kml_placemarks, encountered_titles,
                   encountered_dates, encountered_strava_urls, strava_log, stdout, raised>>

\* lines 265-270: every outing has a placemark; the document is written
WriteKml ==
    /\ pc = "map"
    /\ Len(kml_placemarks) = Len(outings)
    /\ out_opened' = TRUE
    /\ out_file' = kml_all
    /\ pc' = "done"
    /\ UNCHANGED <<outings, prior_kml, kml_placemarks, encountered_titles,
                   encountered_dates, encountered_strava_urls, strava_log, stdout, raised>>

\* lines 271-273: the handler's first statement adds a str and the
\* AssertionError, which raises TypeError before anything is printed
ExceptAssertionError ==
    /\ pc = "except"
    /\ raised.type = "AssertionError"
    /\ raised' = [Exc("TypeError", 272, "") EXCEPT !.during = raised.line]
    /\ pc' = "crashed"
    /\ UNCHANGED <<outings, prior_kml, out_file, out_opened, kml_placemarks,
                   encountered_titles, encountered_dates, encountered_strava_urls,
                   strava_log, stdout>>

\* any other exception is not caught and ends the run
Uncaught ==
    /\ pc = "except"
    /\ raised.type # "AssertionError"
    /\ pc' = "crashed"
    /\ UNCHANGED <<outings, prior_kml, out_file, out_opened, kml_placemarks,
                   encountered_titles, encountered_dates, encountered_strava_urls,
                   strava_log, stdout, raised>>

PipeIdle ==
    /\ outings = <<>>
    /\ prior_kml = NoFile
    /\ out_file = NoFile
    /\ out_opened = FALSE
    /\ kml_placemarks = <<>>
    /\ encountered_titles = {}
    /\ encountered_dates = {}
    /\ encountered_strava_urls = {}
    /\ strava_log = <<>>
    /\ stdout = <<>>
    /\ raised = NoExc
    /\ pc = "idle"

RdpIdle ==
    /\ seg = <<>>
    /\ epsilon = 0
    /\ simplified = <<>>
    /\ resimplified = <<>>
    /\ rpc = "idle"

ColorIdle ==
    /\ style = <<0, 0, 0, 0>>
    /\ color = <<>>
    /\ cpc = "idle"

\* the state when line 262 is reached
Init ==
    /\ outings \in Catalogs
    /\ prior_kml \in {NoFile, StaleFile}
    /\ out_file = prior_kml
    /\ out_opened = FALSE
    /\ kml_placemarks = <<>>
    /\ encountered_titles = {}
    /\ encountered_dates = {}
    /\ encountered_strava_urls = {}
    /\ strava_log = <<>>
    /\ stdout = <<>>
    /\ raised = NoExc
    /\ pc = "map"
    /\ RdpIdle
    /\ ColorIdle

Next ==
    \/ MapGeneratePlacemark /\ UNCHANGED <<rdpVars, colorVars>>
    \/ WriteKml /\ UNCHANGED <<rdpVars, colorVars>>
    \/ ExceptAssertionError /\ UNCHANGED <<rdpVars, colorVars>>
    \/ Uncaught /\ UNCHANGED <<rdpVars, colorVars>>

Spec == Init /\ [][Next]_vars

(***************************************************************************)
(* The simplifier on its own: a segment and a tolerance, simplified once   *)
(* and then once more.                                                     *)
(***************************************************************************)
Grid == {Pt(x, y) : x \in 0..MaxCoord, y \in 0..MaxCoord}

Segments == UNION {[1..n -> Grid] : n \in 0..MaxPoints}

InitRdp ==
    /\ seg \in Segments
    /\ epsilon \in 0..MaxEps
    /\ simplified = <<>>
    /\ resimplified = <<>>
    /\ rpc = "input"
    /\ PipeIdle
    /\ ColorIdle

Simplify ==
    /\ rpc = "input"
    /\ simplified' = optimize_segment_rdp(seg, epsilon)
    /\ rpc' = "once"
    /\ UNCHANGED <<seg, epsilon, resimplified>>

SimplifyAgain ==
    /\ rpc = "once"
    /\ resimplified' = optimize_segment_rdp(simplified, epsilon)
    /\ rpc' = "twice"
    /\ UNCHANGED <<seg, epsilon, simplified>>

NextRdp ==
    \/ Simplify /\ UNCHANGED <<pipeVars, colorVars>>
    \/ SimplifyAgain /\ UNCHANGED <<pipeVars, colorVars>>

SpecRdp == InitRdp /\ [][NextRdp]_vars

(***************************************************************************)
(* The colour encoding on its own: a style, encoded.                       *)
(***************************************************************************)
Channels == {0, 55, 136, 139, 180, 216, 227, 255}

Opacities == 0..10

InitColor ==
    /\ style \in Channels \X Channels \X Channels \X Opacities
    /\ color = <<>>
    /\ cpc = "input"
    /\ PipeIdle
    /\ RdpIdle

Encode ==
    /\ cpc = "input"
    /\ color' = generate_style(<<Type_Run, style>>).color
    /\ cpc' = "encoded"
    /\ UNCHANGED style

NextColor == Encode /\ UNCHANGED <<pipeVars, rdpVars>>

SpecColor == InitColor /\ [][NextColor]_vars

(***************************************************************************)
(* Properties.                                                             *)
(***************************************************************************)
NoDuplicates(s) == \A i, j \in 1..Len(s) : s[i] = s[j] => i = j

IsPrefix(s, t) == Len(s) <= Len(t) /\ SubSeq(t, 1, Len(s)) = s

\* the Strava identifiers of a list of outings, in catalog order
AllUrls(os) ==
    Flatten([i \in 1..Len(os) |->
                IF "stravaUrl" \in DOMAIN os[i] THEN os[i].stravaUrl ELSE <<>>])

NumPoints(o) == IF "points" \in DOMAIN o THEN Len(o.points) ELSE 0

NumTracks(o) == IF "tracks" \in DOMAIN o THEN Len(o.tracks) ELSE 0

\* the outing generate_placemark is working on, or has failed on
Current == outings[Len(kml_placemarks) + 1]

\* C1: whenever an outing has failed, for whatever reason, the output file
\* has not been opened and is what it was before the run; the file is opened
\* only when every outing of the catalog has its placemark.
C1_NoOutputOnFailure ==
    /\ out_opened => /\ Len(kml_placemarks) = Len(outings)
                     /\ raised.type = ""
                     /\ out_file.placemarks = kml_placemarks
    /\ ~out_opened => out_file = prior_kml
    /\ (raised.type # "" \/ pc \in {"except", "crashed"}) =>
           ~out_opened /\ out_file = prior_kml

\* a run that failed on its second outing, after one placemark, with a stale
\* output file in place
C1_Witness ==
    /\ pc = "crashed"
    /\ raised.type = "FileNotFoundError"
    /\ Len(kml_placemarks) = 1
    /\ prior_kml = StaleFile
    /\ out_file = StaleFile

\* C2: the identifiers accepted so far are pairwise distinct; a second
\* occurrence, in a later outing or in the same list, raises the assertion
\* of line 215 at that occurrence, and no output is written.
C2_StravaUrlsUnique ==
    /\ NoDuplicates(strava_log)
    /\ Range(strava_log) = encountered_strava_urls
    /\ NoDuplicates(AllUrls(SubSeq(outings, 1, Len(kml_placemarks))))
    /\ pc = "done" => NoDuplicates(AllUrls(outings))
    /\ (pc = "except" /\ raised.line = 215) =>
           /\ raised.type = "AssertionError"
           /\ raised.url \in Range(strava_log)
           /\ IsPrefix(strava_log \o <<raised.url>>,
                       AllUrls(SubSeq(outings, 1, Len(kml_placemarks) + 1)))
           /\ ~out_opened
    /\ (pc = "crashed" /\ raised.during = 215) => ~out_opened /\ out_file = prior_kml

\* an identifier repeated inside the first outing's own list
C2_Witness ==
    /\ pc = "except"
    /\ raised.line = 215
    /\ Len(kml_placemarks) = 0
    /\ strava_log = <<raised.url>>

\* C3: a step of generate_placemark has the outcome it would have with no
\* title and no date encountered before: the same placemark, or the same
\* exception.
C3_DuplicateTitleDateNotFatal ==
    [][(pc = "map" /\ Len(kml_placemarks) < Len(outings)) =>
          LET fresh == generate_placemark(
                           Current, [Globals EXCEPT !.titles = {}, !.dates = {}], gpx_data_dir)
          IN /\ fresh.exc.type = "" =>
                    /\ pc' = "map"
                    /\ kml_placemarks' = Append(kml_placemarks, fresh.placemark)
             /\ fresh.exc.type # "" => raised' = fresh.exc /\ pc' = "except"]_vars

\* a catalog of two outings with the same title, written
C3_Witness ==
    /\ pc = "done"
    /\ out_opened
    /\ Len(out_file.placemarks) = 2
    /\ \E i \in 1..Len(stdout) : stdout[i].k = "title"
    /\ \E i \in 1..Len(stdout) : stdout[i].k = "date"

\* the readings of s as DATE__TYPE__TITLE[__N].gpx
GrammarReadings(s) ==
    {r \in [type : StyleKeys, len : 1..Len(s), n : {<<>>} \cup {<<d>> : d \in Digits}] :
        /\ DateFmtAt(s, 1)
        /\ 14 + Len(r.type) + r.len <= Len(s)
        /\ \A k \in 1..r.len : s[14 + Len(r.type) + k] \notin Whitespace
        /\ s = SubSeq(s, 1, 10) \o <<"_", "_">> \o r.type \o <<"_", "_">>
               \o SubSeq(s, 15 + Len(r.type), 14 + Len(r.type) + r.len)
               \o (IF r.n = <<>> THEN <<>> ELSE <<"_", "_">> \o r.n)
               \o <<".", "g", "p", "x">>}

\* C4: an accepted outing with tracks has a first file name of the form
\* DATE__TYPE__TITLE[__N].gpx; with two or more tracks the name has an index;
\* a name with an index has index 1, and the i-th name is
\* DATE__TYPE__TITLE__i.gpx.
C4_TrackNamesFollowGrammar ==
    \A i \in 1..Len(kml_placemarks) :
        NumTracks(outings[i]) > 0 =>
            LET tracks == outings[i].tracks
                rs == GrammarReadings(tracks[1])
            IN /\ rs # {}
               /\ Len(tracks) > 1 => \E r \in rs : r.n # <<>>
               /\ \A r \in rs : r.n # <<>> =>
                      /\ r.n = <<"1">>
                      /\ \A j \in 1..Len(tracks) :
                             tracks[j] = SubSeq(tracks[1], 1, Len(tracks[1]) - 5)
                                         \o ToStr(j) \o <<".", "g", "p", "x">>

\* C5: an outing without points and without tracks is never accepted, and
\* the exception that rejects it is the assertion whose message holds the
\* outing.
C5_NoGeometryRejected ==
    /\ \A i \in 1..Len(kml_placemarks) : NumPoints(outings[i]) + NumTracks(outings[i]) > 0
    /\ (pc = "except" /\ NumPoints(Current) + NumTracks(Current) = 0) =>
           raised.type = "AssertionError" /\ raised.subject = "outing"
    /\ (pc \in {"except", "crashed"}) => ~out_opened

\* what the first track's name says, read off the name directly
DerivedField(o, field) ==
    LET m == track_file_format(o.tracks[1])
    IN IF field = "date" THEN m.date
       ELSE IF field = "type" THEN m.type
       ELSE ReplaceUnderscores(m.title)

ResolvedField(o, field) ==
    IF field \in DOMAIN o THEN o[field] ELSE DerivedField(o, field)

\* C6: the date, type and title of every placemark are the explicit fields
\* where the outing has them and the first track name's values otherwise;
\* they are valid, they are in the encountered sets, and the style reference
\* and the description show them.
C6_ExplicitFieldsWin ==
    \A i \in 1..Len(kml_placemarks) :
        LET o == outings[i]
            p == kml_placemarks[i]
            date == ResolvedField(o, "date")
            type == ResolvedField(o, "type")
            title == ResolvedField(o, "title")
        IN /\ p.style_name = type
           /\ p.description[1].title = title
           /\ p.description[1].type = type
           /\ p.description[1].date = DateNumbers(date)
           /\ title \in encountered_titles
           /\ date \in encountered_dates
           /\ Len(title) > 0 /\ type \in StyleKeys /\ DateFmtMatch(date)

\* a placemark of an outing whose explicit type and date differ from its
\* track name's
C6_Witness ==
    \E i \in 1..Len(kml_placemarks) :
        /\ NumTracks(outings[i]) > 0
        /\ "type" \in DOMAIN outings[i]
        /\ outings[i].type # DerivedField(outings[i], "type")
        /\ "date" \in DOMAIN outings[i]
        /\ outings[i].date # DerivedField(outings[i], "date")
        /\ kml_placemarks[i].style_name = Type_Bike

IsStructure(t) ==
    \/ t.k = "coords"
    \/ t.s \in {"<Point>", "</Point>", "<LineString>", "</LineString>",
                "<MultiGeometry>", "</MultiGeometry>"}

\* the elements of a geometry text in document order: the geometry tags and
\* the coordinates, without the line structure
Elements(geometry) == SelectSeq(Flatten(geometry), IsStructure)

PointElement(point) ==
    <<Tag("<Point>"), Coords(<< <<point.long.v, point.lat.v>> >>), Tag("</Point>")>>

LineElement(track, dir) ==
    LET pts == optimize_segment_rdp(dir[track].segments[1], rdp_epsilon)
    IN <<Tag("<LineString>"),
         Coords([i \in 1..Len(pts) |-> <<pts[i].longitude, pts[i].latitude>>]),
         Tag("</LineString>")>>

Children(o, dir) ==
    Flatten([i \in 1..NumPoints(o) |-> PointElement(o.points[i])])
    \o Flatten([i \in 1..NumTracks(o) |-> LineElement(o.tracks[i], dir)])

\* C7: a placemark's geometry is the single Point or LineString when the
\* outing has one source, and otherwise one MultiGeometry whose children are
\* the Points in array order followed by the LineStrings in array order.
C7_GeometryComposition ==
    \A i \in 1..Len(kml_placemarks) :
        LET o == outings[i]
            elements == Elements(kml_placemarks[i].geometry)
        IN /\ NumPoints(o) + NumTracks(o) = 1 => elements = Children(o, gpx_data_dir)
           /\ NumPoints(o) + NumTracks(o) > 1 =>
                  elements = <<Tag("<MultiGeometry>")>> \o Children(o, gpx_data_dir)
                             \o <<Tag("</MultiGeometry>")>>

\* a placemark of an outing with two points and no tracks
C7_Witness ==
    \E i \in 1..Len(kml_placemarks) :
        /\ NumPoints(outings[i]) = 2
        /\ NumTracks(outings[i]) = 0
        /\ Head(Elements(kml_placemarks[i].geometry)) = Tag("<MultiGeometry>")

HexValue(c) == CHOOSE v \in 0..15 : HexDigits[v + 1] = c

\* the four bytes an eight-digit colour spells
Bytes(col) == [i \in 1..4 |-> 16 * HexValue(col[2 * i - 1]) + HexValue(col[2 * i])]

\* round(num/den) as Python rounds: to the nearest, a tie to the even
Round(num, den) ==
    LET q == num \div den
        r == num % den
    IN IF 2 * r < den THEN q
       ELSE IF 2 * r > den THEN q + 1
       ELSE IF q % 2 = 0 THEN q ELSE q + 1

\* C8 as claimed: alpha, blue, green, red, with alpha = round(opacity*255).
C8_AlphaRounded ==
    cpc = "encoded" =>
        /\ Len(color) = 8
        /\ Bytes(color) = <<Round(style[4] * 255, 10), style[3], style[2], style[1]>>

\* C8 as amended: alpha, blue, green, red, two upper-case hexadecimal digits
\* each, with alpha = opacity*255 truncated to an integer; every style of the
\* registry with opacity 0.9 has the alpha byte 229 (E5).
C8_AlphaTruncated ==
    /\ cpc = "encoded" =>
           /\ Len(color) = 8
           /\ Range(color) \subseteq Range(HexDigits)
           /\ Bytes(color) = <<(style[4] * 255) \div 10, style[3], style[2], style[1]>>
    /\ \A i \in 1..Len(styles) :
           styles[i][2][4] = alpha => SubSeq(kml_styles[i].color, 1, 2) = <<"E", "5">>

\* red with opacity 0.9, encoded
C8_Witness ==
    /\ cpc = "encoded"
    /\ style = <<255, 0, 0, 9>>
    /\ color = <<"E", "5", "0", "0", "0", "0", "F", "F">>

\* s is t with some elements left out
RECURSIVE IsSubsequence(_, _)
IsSubsequence(s, t) ==
    IF s = <<>> THEN TRUE
    ELSE IF t = <<>> THEN FALSE
    ELSE IF Head(s) = Head(t) THEN IsSubsequence(Tail(s), Tail(t))
    ELSE IsSubsequence(s, Tail(t))

\* C9: for a segment of at least two points the output is a subsequence of
\* the input that begins with its first point and ends with its last, of
\* length 2 at least and the input's length at most.
C9_SubsequenceWithEndpoints ==
    (rpc \in {"once", "twice"} /\ Len(seg) >= 2) =>
        /\ IsSubsequence(simplified, seg)
        /\ Len(simplified) >= 2
        /\ Len(simplified) <= Len(seg)
        /\ Head(simplified) = Head(seg)
        /\ Last(simplified) = Last(seg)

\* a closed segment with a repeated point, one point of which is dropped
C9_Witness ==
    /\ rpc = "once"
    /\ Len(seg) = 4
    /\ seg[1] = seg[4]
    /\ seg[2] = seg[3]
    /\ Len(simplified) = 3

\* C10: simplifying the output again returns it unchanged.
C10_Idempotent == rpc = "twice" => resimplified = simplified

\* two interior points tie for the largest distance from the chord, the
\* distance exceeds the tolerance, and the first pass dropped a point
C10_Witness ==
    /\ rpc = "twice"
    /\ Len(seg) = 4
    /\ seg[1] # seg[4]
    /\ LET d(i) == DistSq(<<seg[i].latitude, seg[i].longitude>>,
                          <<seg[1].latitude, seg[1].longitude>>,
                          <<seg[4].latitude, seg[4].longitude>>)
       IN d(2).num = d(3).num /\ d(2).num > epsilon * epsilon * d(2).den
    /\ Len(simplified) = 3
    /\ resimplified = simplified

====
